---- MODULE Spec2Model ----
(***************************************************************************)
(* A model of KWGraph (src/graph.h): the Graph container (node and edge    *)
(* collections, the linear adjacency matrix), the random generator         *)
(* InitializeGraph, and the BFS / DFS traversal engine driving a           *)
(* GraphVisitor whose hooks may return any NodeAction.                     *)
(*                                                                         *)
(* C++ vectors are 0-based; the sequences here are 1-based, so the element *)
(* at C++ index i is seq[i + 1].                                           *)
(***************************************************************************)
EXTENDS Integers, Sequences, FiniteSets, TLC

\* ------------------------------------------------------------------ bounds
\* Largest number of nodes AddNode grows a graph to.
MaxNodes == 3
\* Largest number of edge records the edge collection may hold.
MaxEdges == 3
\* Largest number of AddNode / AddEdge / InitializeGraph calls on one Graph.
MaxCalls == 3
\* Largest number of OnStartComponentVisit calls followed in one run.
MaxStarts == 4
\* Deepest DFSStep recursion followed in one run.
MaxDepth == 4
\* RAND_MAX of the modelled rand(): it returns a value in 0..RandMax.
RandMax == 2
\* Longest stretch of the stream of commonSeed that is followed.
MaxDraws == 8
\* Most threads ThreadedInitializeGraph is asked for.
MaxThreads == 3

\* -------------------------------------------------------- program constants
ROOT_ID == -1
INVALID_ID == -2

GraphCreationFlags_Connected == 1
GraphCreationFlags_Directed == 2
GraphCreationFlags_Sparse == 4
GraphCreationFlags_Consistent == 8
GraphCreationFlags_AllowCycles == 16

StorageType_None == 0
StorageType_AdjacencyList == 1
StorageType_AdjacencyMatrix == 1

m_maxSparseConnections == 10
\* m_denseEdgeChance = 0.8f, in tenths.
m_denseEdgeChanceTenths == 8

NodeAction_Continue == "Continue"
NodeAction_Abort == "Abort"
NodeAction_SkipChildren == "SkipChildren"
NodeAction == {NodeAction_Continue, NodeAction_Abort, NodeAction_SkipChildren}

DFSOrder_PreOrder == "PreOrder"
DFSOrder_PostOrder == "PostOrder"
DFSOrder == {DFSOrder_PreOrder, DFSOrder_PostOrder}

\* The weights handed to AddEdge (the payload type T; no algorithm reads it).
Weights == {1}
\* The sizes InitializeGraph is called with.
GraphSizes == {1, 2, 3}
\* The sizes of the graphs that are traversed more than once.
RerunGraphSizes == {1, 2}
\* All flag combinations of InitializeGraph.
AllFlags == 0..31
\* flags & bit, for a bit that is a power of two.
HasFlag(flags, bit) == (flags \div bit) % 2 = 1
\* storageType & bit, for the one-bit masks of StorageType.
HasStorage(storageType, bit) == (storageType \div bit) % 2 = 1

VARIABLES
    m_nodes,        \* std::vector<Node>: records [id, edges, parent]
    m_edges,        \* std::vector<Edge>: records [source, destination, weight, directed]
    m_matrix,       \* std::vector<T>: the linear adjacency matrix
    m_storageType,  \* StorageType
    isRandomEngineOn, \* the process-wide "engine started" flag
    seeded,         \* whether srand has been called in this process
    randStream,     \* the values rand() is known to yield after srand(commonSeed)
    randPos,        \* how many of them were drawn since that srand; -1: not so seeded
    prior,          \* the Graph generated before this one in the process, with its arguments
    asserted,       \* an assert() has failed: the process is gone
    pc,             \* where the program is: "idle", "gen", "bfs", "dfs", ...
    gen,            \* the locals of a running InitializeGraph
    lastOp,         \* the last public Graph mutation called, with its arguments
    calls,          \* how many public Graph mutations were called so far
    visitor,        \* whether the traversal was handed a visitor (or NULL)
    algo,           \* "none", "BFS" or "DFS": the traversal being run
    order,          \* the DFSOrder of a DFS run
    visitSource,    \* the local visitSource of BFS / DFS
    visitQueue,     \* BFS: std::queue<Node*>, as node indices
    visited,        \* std::vector<bool> visitedNodes / visited
    broke,          \* BFS: the loop was left by break
    stack,          \* DFS: the active DFSStep frames [node, edgeIt], innermost last
    drv,            \* DFS: the driver's locals [allNodesVisited, at, nodeIt]
    hookLog,        \* every hook invoked in this run, in order: [hook, node]
    abortAt,        \* the place in hookLog of the first hook that returned Abort (or 0)
    sawSkip,        \* some hook of this run returned SkipChildren
    skipped,        \* the ids for which a hook ahead of the children returned SkipChildren
    marks,          \* per node: how often "visited[id] = true" ran in this run
    entered,        \* DFS: the pairs <<k, c>> with DFSStep(c) called from k's loop
    thr,            \* the locals of a running ThreadedInitializeGraph
    threads,        \* std::vector<PThreadID> threads: per slot the worker it names
    workers,        \* per node: the thread running CreateGraphEdges for it
    edgeData        \* per node: EdgeCreateData::edges

graphVars == <<m_nodes, m_edges, m_matrix, m_storageType>>
engineVars == <<isRandomEngineOn, seeded, randStream, randPos, prior>>
callVars == <<asserted, gen, lastOp, calls>>
visitVars == <<visitor, algo, order, visitSource>>
threadVars == <<thr, threads, workers, edgeData>>
stateVars == <<visitQueue, visited, broke, stack, drv, hookLog, abortAt, sawSkip,
               skipped, marks, entered>>
vars == <<m_nodes, m_edges, m_matrix, m_storageType, isRandomEngineOn, seeded,
          randStream, randPos, prior,
          asserted, pc, gen, lastOp, calls, visitor, algo, order, visitSource,
          visitQueue, visited, broke, stack, drv, hookLog, abortAt, sawSkip,
          skipped, marks, entered, thr, threads, workers, edgeData>>

\* ---------------------------------------------------------------- the graph
\* Node(): the constructor sets parent only; id is whatever the caller writes.
NewNode(id) == [id |-> id, edges |-> <<>>, parent |-> INVALID_ID]

\* The values an uninitialized Node::id may hold after AddNode(weight), which
\* never writes it: any int; here the ids of a graph of MaxNodes nodes.
UninitializedId == 0..(MaxNodes - 1)

\* The values Graph::m_storageType may hold before InitializeGraph writes it
\* (Graph has no constructor): None, the list/matrix bit, or another bit.
UninitializedStorage == {StorageType_None, StorageType_AdjacencyList, 2}

\* m_nodes.push_back(newNode) for AddNode(T weight).
AddNodeTo(nodes, id) == Append(nodes, NewNode(id))

G(nodes, edges, matrix) == [nodes |-> nodes, edges |-> edges, matrix |-> matrix]

NewEdge(s, d, w, directed) ==
    [source |-> s, destination |-> d, weight |-> w, directed |-> directed]

\* m_nodes[id].edges.push_back(edgeId)
PushEdgeRef(nodes, id, edgeId) ==
    [nodes EXCEPT ![id + 1].edges = Append(@, edgeId)]

\* The branch of AddListEdge that adds the reciprocal record: if(directed).
AddsReciprocal(directed) == directed

\* AddListEdge(int sourceId, int destId, T weight, bool directed)
AddListEdge(g, sourceId, destId, weight, directed) ==
    LET edgeId1 == Len(g.edges)
        edges1 == Append(g.edges, NewEdge(sourceId, destId, weight, directed))
        nodes1 == PushEdgeRef(g.nodes, sourceId, edgeId1)
    IN  IF AddsReciprocal(directed)
        THEN LET edgeId2 == Len(edges1)
                 edges2 == Append(edges1, NewEdge(destId, sourceId, weight, directed))
             IN  G(PushEdgeRef(nodes1, destId, edgeId2), edges2, g.matrix)
        ELSE G(nodes1, edges1, g.matrix)

\* AllocAdjacencyMatrix() sizing the buffer for one row only.
AllocAdjacencyMatrix_OneRow(nrNodes) == [i \in 1..nrNodes |-> 0]

\* AllocAdjacencyMatrix(): resize(0) then resize(n * n), so every cell is T().
AllocAdjacencyMatrix(nrNodes) == [i \in 1..(nrNodes * nrNodes) |-> 0]

\* GetMatrixIndex(row, col)
GetMatrixIndex(nrNodes, row, col) == row * nrNodes + col

\* AddMatrixEdge(int sourceId, int destId, T weight, bool directed)
AddMatrixEdge(g, sourceId, destId, weight, directed) ==
    LET nrNodes == Len(g.nodes)
        matrix0 == IF Len(g.matrix) # nrNodes * nrNodes
                   THEN AllocAdjacencyMatrix(nrNodes) ELSE g.matrix
        srcRow == sourceId \div nrNodes
        dstRow == destId \div nrNodes
        srcCol == sourceId % nrNodes
        dstCol == destId % nrNodes
        srcToDstIndex == GetMatrixIndex(nrNodes, srcRow, dstCol)
        matrix1 == [matrix0 EXCEPT ![srcToDstIndex + 1] = weight]
        dstToSrcIndex == GetMatrixIndex(nrNodes, dstRow, srcCol)
    IN  IF directed
        THEN G(g.nodes, g.edges, [matrix1 EXCEPT ![dstToSrcIndex + 1] = weight])
        ELSE G(g.nodes, g.edges, matrix1)

\* The body of AddEdge(int, int, T, bool) once its assert has passed.
AddEdgeTo(g, storageType, sourceId, destId, weight, directed) ==
    LET g1 == IF HasStorage(storageType, StorageType_AdjacencyList)
              THEN AddListEdge(g, sourceId, destId, weight, directed) ELSE g
    IN  IF HasStorage(storageType, StorageType_AdjacencyMatrix)
        THEN AddMatrixEdge(g1, sourceId, destId, weight, directed) ELSE g1

\* An assert that lets every storage type through.
AssertPasses_Always(storageType) == TRUE

\* assert(m_storageType != StorageType_None)
AssertPasses(storageType) == storageType # StorageType_None

\* How many edge records one AddEdge call appends.
RecordsPerCall(storageType, directed) ==
    IF HasStorage(storageType, StorageType_AdjacencyList)
    THEN (IF AddsReciprocal(directed) THEN 2 ELSE 1) ELSE 0

\* InitGraphStorage: m_nodes.resize(size), then id = index for every node.
InitGraphStorage(nodes, size) ==
    [i \in 1..size |->
        IF i <= Len(nodes) THEN [nodes[i] EXCEPT !.id = i - 1] ELSE NewNode(i - 1)]

\* StartRandomEngine(isConsistent): returns at once unless the engine is on;
\* past that test it calls srand, with commonSeed (the known stream starts
\* over) or with the time (a stream of its own), and sets the flag.
StartRandomEngine(on, wasSeeded, isConsistent, pos) ==
    IF ~on THEN [on |-> on, seeded |-> wasSeeded, pos |-> pos]
    ELSE [on |-> TRUE, seeded |-> TRUE, pos |-> IF isConsistent THEN 0 ELSE -1]

\* The values rand() may return.
RandValues == 0..RandMax

\* rand() may return v now: any value, unless the stream of commonSeed is
\* being replayed and is known at this place.
CanDraw(v) ==
    IF randPos = -1 \/ randPos >= Len(randStream) THEN TRUE
    ELSE randStream[randPos + 1] = v

\* rand() returns v.
Draw(v) ==
    /\ CanDraw(v)
    /\ randPos < MaxDraws
    /\ randPos' = IF randPos = -1 THEN -1 ELSE randPos + 1
    /\ randStream' = IF randPos # -1 /\ randPos >= Len(randStream)
                     THEN Append(randStream, v) ELSE randStream

NoPrior == [phase |-> "none", size |-> 0, flags |-> 0, storage |-> StorageType_None,
            nodes |-> <<>>, edges |-> <<>>]

NoGen == [phase |-> "none", size |-> 0, isSparse |-> FALSE, isCyclic |-> FALSE,
          isDirected |-> FALSE, isConnected |-> FALSE, nodeIt |-> 0, edgeIt |-> 0]
NoOp == [op |-> "none"]

CurrentGraph == G(m_nodes, m_edges, m_matrix)

SetGraph(g) ==
    /\ m_nodes' = g.nodes
    /\ m_edges' = g.edges
    /\ m_matrix' = g.matrix

NoThr == [size |-> 0, nrThreads |-> 0, nrConnections |-> 0, nodeIt |-> 0,
          crThreadId |-> 0, threadIt |-> 0]

NoDrv == [allNodesVisited |-> FALSE, at |-> "none", nodeIt |-> 0]

\* A process that has just constructed an empty Graph<T> and no visitor run.
Init ==
    /\ m_nodes = <<>>
    /\ m_edges = <<>>
    /\ m_matrix = <<>>
    /\ m_storageType \in UninitializedStorage
    /\ isRandomEngineOn = FALSE
    /\ seeded = FALSE
    /\ randStream = <<>>
    /\ randPos = -1
    /\ prior = NoPrior
    /\ asserted = FALSE
    /\ pc = "idle"
    /\ gen = NoGen
    /\ lastOp = NoOp
    /\ calls = 0
    /\ visitor = FALSE
    /\ algo = "none"
    /\ order = DFSOrder_PreOrder
    /\ visitSource = 0
    /\ visitQueue = <<>>
    /\ visited = <<>>
    /\ broke = FALSE
    /\ stack = <<>>
    /\ drv = NoDrv
    /\ hookLog = <<>>
    /\ abortAt = 0
    /\ sawSkip = FALSE
    /\ skipped = {}
    /\ marks = <<>>
    /\ entered = {}
    /\ thr = NoThr
    /\ threads = <<>>
    /\ workers = <<>>
    /\ edgeData = <<>>

\* ------------------------------------------------------ the mutation calls
\* AddNode(T weight)
AddNode ==
    /\ pc = "idle"
    /\ ~asserted
    /\ Len(m_nodes) < MaxNodes
    /\ calls < MaxCalls
    /\ calls' = calls + 1
    /\ \E id \in UninitializedId :
          /\ m_nodes' = AddNodeTo(m_nodes, id)
          /\ lastOp' = [op |-> "AddNode", count |-> Len(m_nodes)]
    /\ UNCHANGED <<threadVars, m_edges, m_matrix, m_storageType, engineVars, asserted, pc, gen,
                   visitVars, stateVars>>

\* AddEdge(int sourceId, int destId, T weight, bool directed), for ids of
\* nodes the graph holds.
AddEdge ==
    /\ pc = "idle"
    /\ ~asserted
    /\ calls < MaxCalls
    /\ calls' = calls + 1
    /\ \E sourceId \in 0..(Len(m_nodes) - 1), destId \in 0..(Len(m_nodes) - 1),
          weight \in Weights, directed \in BOOLEAN :
          /\ lastOp' = [op |-> "AddEdge", sourceId |-> sourceId, destId |-> destId,
                        weight |-> weight, directed |-> directed]
          /\ IF ~AssertPasses(m_storageType)
             THEN \* assert(m_storageType != StorageType_None)
                  /\ asserted' = TRUE
                  /\ UNCHANGED graphVars
             ELSE /\ Len(m_edges) + RecordsPerCall(m_storageType, directed) <= MaxEdges
                  /\ SetGraph(AddEdgeTo(CurrentGraph, m_storageType,
                                        sourceId, destId, weight, directed))
                  /\ UNCHANGED <<m_storageType, asserted>>
    /\ UNCHANGED <<threadVars, engineVars, pc, gen, visitVars, stateVars>>

\* ------------------------------------------------------- InitializeGraph
\* randomChance < edgeChance, for randomChance = v / RAND_MAX and edgeChance
\* = m_maxSparseConnections / size (sparse) or m_denseEdgeChance = 0.8.
RandomChanceBelow(v, isSparse, size) ==
    IF isSparse THEN v * size < m_maxSparseConnections * RandMax
    ELSE v * 10 < m_denseEdgeChanceTenths * RandMax

\* Whether "randomChance < edgeChance" can come out true / false.
EdgeChanceHit(isSparse, size) ==
    {RandomChanceBelow(v, isSparse, size) : v \in RandValues}

\* The test for a self edge never holding.
SkipsSelfEdge_Never(isCyclic, nodeIt, other) == FALSE

\* !isCyclic && edgeIt == nodeIt; !isCyclic && connectionIndex == nodeIt
SkipsSelfEdge(isCyclic, nodeIt, other) == ~isCyclic /\ other = nodeIt

\* The locals of InitializeGraph that outlive its first lines.
GenLocals(size, flags) ==
    [phase |-> "pairs", size |-> size,
     isSparse |-> HasFlag(flags, GraphCreationFlags_Sparse),
     isCyclic |-> HasFlag(flags, GraphCreationFlags_AllowCycles),
     isDirected |-> HasFlag(flags, GraphCreationFlags_Directed),
     isConnected |-> HasFlag(flags, GraphCreationFlags_Connected),
     nodeIt |-> 0, edgeIt |-> 0]

\* InitializeGraph(size, flags, weightScale, storage), up to its node loop.
InitializeGraphCall(size, flags, storage) ==
    /\ pc = "idle"
    /\ ~asserted
    /\ calls < MaxCalls
    /\ calls' = calls + 1
    /\ m_storageType' = storage
    /\ LET e == StartRandomEngine(isRandomEngineOn, seeded,
                                  HasFlag(flags, GraphCreationFlags_Consistent), randPos)
       IN  /\ isRandomEngineOn' = e.on
           /\ seeded' = e.seeded
           /\ randPos' = e.pos
    /\ randStream' = randStream
    /\ m_nodes' = InitGraphStorage(m_nodes, size)
    /\ gen' = GenLocals(size, flags)
    /\ pc' = "gen"
    /\ lastOp' = [op |-> "InitializeGraph"]
    /\ UNCHANGED <<threadVars, m_edges, m_matrix, asserted, visitVars, stateVars>>

\* The AddEdge call InitializeGraph makes, with its assert.
GenAddEdge(sourceId, destId, directed) ==
    IF ~AssertPasses(m_storageType)
    THEN /\ asserted' = TRUE
         /\ UNCHANGED <<m_nodes, m_edges, m_matrix>>
    ELSE /\ Len(m_edges) + RecordsPerCall(m_storageType, directed) <= MaxEdges
         /\ \E weight \in Weights :
               SetGraph(AddEdgeTo(CurrentGraph, m_storageType,
                                  sourceId, destId, weight, directed))
         /\ UNCHANGED asserted

\* The end of one pass of the node loop: ++nodeIt, or the return.
GenAdvance ==
    IF gen.nodeIt + 1 < gen.size
    THEN /\ gen' = [gen EXCEPT !.phase = "pairs", !.nodeIt = @ + 1, !.edgeIt = 0]
         /\ pc' = pc
    ELSE /\ gen' = NoGen
         /\ pc' = "idle"

\* One pass of the inner loop over edgeIt.
GenEdge ==
    /\ pc = "gen"
    /\ ~asserted
    /\ gen.phase = "pairs"
    /\ gen.edgeIt < gen.size
    /\ \E v \in RandValues :
          /\ Draw(v)
          /\ IF /\ RandomChanceBelow(v, gen.isSparse, gen.size)
                /\ ~SkipsSelfEdge(gen.isCyclic, gen.nodeIt, gen.edgeIt)
             THEN GenAddEdge(gen.nodeIt, gen.edgeIt, gen.isDirected)
             ELSE UNCHANGED <<m_nodes, m_edges, m_matrix, asserted>>
    /\ gen' = [gen EXCEPT !.edgeIt = @ + 1]
    /\ UNCHANGED <<threadVars, m_storageType, isRandomEngineOn, seeded, prior, pc, lastOp, calls,
                   visitVars, stateVars>>

\* After the inner loop: the forced edge of a Connected graph, one draw of
\* connectionIndex per step (phase "retry" is the while loop drawing again).
GenConnect ==
    /\ pc = "gen"
    /\ ~asserted
    /\ \/ gen.phase = "pairs" /\ gen.edgeIt = gen.size
       \/ gen.phase = "retry"
    /\ IF gen.isConnected /\ Len(m_nodes[gen.nodeIt + 1].edges) = 0
       THEN \E v \in RandValues :
               LET connectionIndex == v % gen.size
               IN  /\ Draw(v)
                   /\ IF SkipsSelfEdge(gen.isCyclic, gen.nodeIt, connectionIndex)
                      THEN /\ gen' = [gen EXCEPT !.phase = "retry"]
                           /\ UNCHANGED <<m_nodes, m_edges, m_matrix, asserted, pc>>
                      ELSE /\ GenAddEdge(gen.nodeIt, connectionIndex, gen.isDirected)
                           /\ GenAdvance
       ELSE /\ GenAdvance
            /\ UNCHANGED <<m_nodes, m_edges, m_matrix, asserted, randStream, randPos>>
    /\ UNCHANGED <<threadVars, m_storageType, isRandomEngineOn, seeded, prior, lastOp, calls,
                   visitVars, stateVars>>

\* InitializeGraph called with any size, flags and storage kind, on a graph
\* that holds no edge yet (a new Graph, or one that only had AddNode calls).
InitializeGraphOf(sizes) ==
    /\ m_edges = <<>>
    /\ \E size \in sizes, flags \in AllFlags,
          storage \in {StorageType_None, StorageType_AdjacencyList} :
          InitializeGraphCall(size, flags, storage)
    /\ prior' = prior

InitializeGraph == InitializeGraphOf(GraphSizes)

\* The construction interface alone: AddNode, AddEdge, InitializeGraph.
NextBuild ==
    \/ AddNode
    \/ AddEdge
    \/ InitializeGraph
    \/ GenEdge
    \/ GenConnect

SpecBuild == Init /\ [][NextBuild]_vars

\* ------------------------------------------- two generations in one process
\* The flag combinations that hold Consistent.
ConsistentFlags == {f \in AllFlags : HasFlag(f, GraphCreationFlags_Consistent)}

\* The first Graph of the process is generated, with the Consistent flag.
FirstGeneration ==
    /\ prior = NoPrior
    /\ calls = 0
    /\ \E size \in GraphSizes, flags \in ConsistentFlags,
          storage \in {StorageType_None, StorageType_AdjacencyList} :
          /\ InitializeGraphCall(size, flags, storage)
          /\ prior' = [prior EXCEPT !.phase = "first", !.size = size,
                                    !.flags = flags, !.storage = storage]

\* The first Graph is kept as it is and a second Graph is constructed.
NewGraph ==
    /\ pc = "idle"
    /\ ~asserted
    /\ prior.phase = "first"
    /\ prior' = [prior EXCEPT !.phase = "second", !.nodes = m_nodes, !.edges = m_edges]
    /\ m_nodes' = <<>>
    /\ m_edges' = <<>>
    /\ m_matrix' = <<>>
    /\ m_storageType' \in UninitializedStorage
    /\ lastOp' = NoOp
    /\ UNCHANGED <<threadVars, isRandomEngineOn, seeded, randStream, randPos, asserted, pc, gen,
                   calls, visitVars, stateVars>>

\* The second Graph is generated with the arguments of the first.
SecondGeneration ==
    /\ prior.phase = "second"
    /\ InitializeGraphCall(prior.size, prior.flags, prior.storage)
    /\ prior' = [prior EXCEPT !.phase = "again"]

NextGen ==
    \/ FirstGeneration
    \/ GenEdge
    \/ GenConnect
    \/ NewGraph
    \/ SecondGeneration

\* Two Graphs generated one after the other, as two calls made by one main.
SpecGen == Init /\ [][NextGen]_vars

\* ------------------------------------------------------------ the visitor
\* One hook invocation as the visitor sees it: the hook and the id of the
\* node it was handed (-1 for the hooks that take none).
Hook(name, node) == [hook |-> name, node |-> node]

\* What a visitor may return from a hook; a NULL visitor returns nothing and
\* the code goes on as for Continue.
HookResults(hasVisitor) == IF hasVisitor THEN NodeAction ELSE {NodeAction_Continue}

\* if(visitor) visitor->name(): a hook that returns nothing. st holds the
\* locals of the run, among them what the visitor has observed so far.
CallVoid(st, hasVisitor, name) ==
    IF hasVisitor THEN [st EXCEPT !.log = Append(@, Hook(name, -1))] ELSE st

\* if(visitor) action = visitor->name(node): a hook that returned result.
CallHook(st, hasVisitor, name, node, result) ==
    IF hasVisitor
    THEN [st EXCEPT !.log = Append(@, Hook(name, node)),
                    !.abortAt = IF @ = 0 /\ result = NodeAction_Abort
                                THEN Len(st.log) + 1 ELSE @,
                    !.sawSkip = @ \/ result = NodeAction_SkipChildren]
    ELSE st

\* The visitor answered result to a hook of the node that precedes the
\* node's children: SkipChildren is noted against the node.
NoteSkipped(st, hasVisitor, node, result) ==
    IF hasVisitor /\ result = NodeAction_SkipChildren
    THEN [st EXCEPT !.skipped = @ \cup {node}] ELSE st

\* How many entries of the log are calls of the hook.
CountHook(log, name) == Cardinality({i \in 1..Len(log) : log[i].hook = name})

\* The hooks that are handed a node.
NodeHooks == {"OnBeginNodeProcess", "OnNodeAlreadyVisited", "OnNodeProcess",
              "OnEndNodeProcess"}

\* InvalidateParents leaving every parent as it is.
InvalidateParents_Skipped(nodes) == nodes

\* InvalidateParents()
InvalidateParents(nodes) ==
    [i \in 1..Len(nodes) |-> [nodes[i] EXCEPT !.parent = INVALID_ID]]

\* GetVisitSource() clamped: (visitSource < 0) ? 0 : visitSource
ClampSource(source) == IF source < 0 THEN 0 ELSE source

\* The locals of a run (with the nodes, whose parent it writes, and the
\* place the run is at) as one record, and back.
RunState ==
    [nodes |-> m_nodes, queue |-> visitQueue, visited |-> visited,
     marks |-> marks, broke |-> broke, stack |-> stack, drv |-> drv,
     entered |-> entered, log |-> hookLog, abortAt |-> abortAt,
     sawSkip |-> sawSkip, skipped |-> skipped, pc |-> pc]

SetRunState(st) ==
    /\ m_nodes' = st.nodes
    /\ visitQueue' = st.queue
    /\ visited' = st.visited
    /\ marks' = st.marks
    /\ broke' = st.broke
    /\ stack' = st.stack
    /\ drv' = st.drv
    /\ entered' = st.entered
    /\ hookLog' = st.log
    /\ abortAt' = st.abortAt
    /\ sawSkip' = st.sawSkip
    /\ skipped' = st.skipped
    /\ pc' = st.pc

\* The locals at the start of a run over nodes.
FreshRun(nodes, at) ==
    [nodes |-> InvalidateParents(nodes), queue |-> <<>>,
     visited |-> [i \in 1..Len(nodes) |-> FALSE],
     marks |-> [i \in 1..Len(nodes) |-> 0], broke |-> FALSE, stack |-> <<>>,
     drv |-> NoDrv, entered |-> {}, log |-> <<>>, abortAt |-> 0,
     sawSkip |-> FALSE, skipped |-> {}, pc |-> at]

\* -------------------------------------------------------------------- BFS
\* The loop of BFSAddNextComponentNode: the first index whose flag is false.
FirstUnvisited(flags) ==
    CHOOSE i \in 0..(Len(flags) - 1) :
        /\ ~flags[i + 1]
        /\ \A j \in 0..(i - 1) : flags[j + 1]

\* BFSAddNextComponentNode(visitor, visitQueue, visitedNodes)
BFSAddNextComponentNode(st, hasVisitor) ==
    LET s1 == CallVoid(st, hasVisitor, "OnEndComponentVisit")
    IN  IF \A i \in 1..Len(st.visited) : st.visited[i]
        THEN s1
        ELSE LET nodeIt == FirstUnvisited(st.visited)
                 s2 == CallVoid(s1, hasVisitor, "OnStartComponentVisit")
             IN  [s2 EXCEPT !.nodes = [@ EXCEPT ![nodeIt + 1].parent = ROOT_ID],
                            !.queue = Append(@, nodeIt)]

\* if(visitQueue.empty()) BFSAddNextComponentNode(...);
BFSContinue(st, hasVisitor) ==
    IF st.queue = <<>> THEN BFSAddNextComponentNode(st, hasVisitor) ELSE st

\* The break of BFS never taken.
BFSBreaks_Never(action) == FALSE

\* if(action == NodeAction_Abort) break;
BFSBreaks(action) == action = NodeAction_Abort

\* The visited test of BFS answering "not visited" for every node.
BFSIsVisited_Never(flags, id) == FALSE

\* if(visitedNodes[crNode->id])
BFSIsVisited(flags, id) == flags[id + 1]

\* The for loop over crNode->edges: the first discoverer becomes the parent,
\* and the destination is pushed whether or not it was seen before.
RECURSIVE BFSPushEdges(_, _, _, _, _)
BFSPushEdges(nodes, queue, edges, refs, crId) ==
    IF refs = <<>> THEN [nodes |-> nodes, queue |-> queue]
    ELSE LET next == edges[Head(refs) + 1].destination
             nodes1 == IF nodes[next + 1].parent = INVALID_ID
                       THEN [nodes EXCEPT ![next + 1].parent = crId] ELSE nodes
         IN  BFSPushEdges(nodes1, Append(queue, next), edges, Tail(refs), crId)

\* One pass of the while loop of BFS: crNode is popped, and the visitor
\* returns a1 from OnBeginNodeProcess, a2 from OnNodeAlreadyVisited or
\* OnNodeProcess, a3 from OnEndNodeProcess (for the hooks the pass reaches).
BFSLoopBody(st, edges, hasVisitor, a1, a2, a3) ==
    LET cr == Head(st.queue)
        crId == st.nodes[cr + 1].id
        s0 == NoteSkipped(CallHook([st EXCEPT !.queue = Tail(@)], hasVisitor,
                                   "OnBeginNodeProcess", crId, a1),
                          hasVisitor, crId, a1)
    IN  IF hasVisitor /\ BFSBreaks(a1) THEN [s0 EXCEPT !.broke = TRUE]
        ELSE IF hasVisitor /\ a1 = NodeAction_SkipChildren
        THEN BFSContinue(s0, hasVisitor)
        ELSE IF BFSIsVisited(s0.visited, crId)
        THEN LET s1 == CallHook(s0, hasVisitor, "OnNodeAlreadyVisited", crId, a2)
             IN  IF hasVisitor /\ BFSBreaks(a2) THEN [s1 EXCEPT !.broke = TRUE]
                 ELSE BFSContinue(s1, hasVisitor)
        ELSE LET s1 == NoteSkipped(
                           CallHook([s0 EXCEPT !.visited = [@ EXCEPT ![crId + 1] = TRUE],
                                               !.marks = [@ EXCEPT ![crId + 1] = @ + 1]],
                                    hasVisitor, "OnNodeProcess", crId, a2),
                           hasVisitor, crId, a2)
             IN  IF hasVisitor /\ BFSBreaks(a2) THEN [s1 EXCEPT !.broke = TRUE]
                 ELSE IF hasVisitor /\ a2 = NodeAction_SkipChildren
                 THEN BFSContinue(s1, hasVisitor)
                 ELSE LET p == BFSPushEdges(s1.nodes, s1.queue, edges,
                                            s1.nodes[cr + 1].edges, crId)
                          s2 == CallHook([s1 EXCEPT !.nodes = p.nodes, !.queue = p.queue],
                                         hasVisitor, "OnEndNodeProcess", crId, a3)
                      IN  IF hasVisitor /\ BFSBreaks(a3) THEN [s2 EXCEPT !.broke = TRUE]
                          ELSE BFSContinue(s2, hasVisitor)

\* BFS(visitor) up to its while loop, for a visitor (or NULL) whose
\* GetVisitSource() is source.
BFSBegin(nodes, hasVisitor, source) ==
    LET src == IF hasVisitor THEN ClampSource(source) ELSE 0
        s0 == FreshRun(nodes, "bfs")
        s1 == [s0 EXCEPT !.queue = <<src>>,
                         !.nodes = [@ EXCEPT ![src + 1].parent = ROOT_ID]]
    IN  CallVoid(CallVoid(s1, hasVisitor, "OnStartVisit"),
                 hasVisitor, "OnStartComponentVisit")

\* A call of BFS(visitor), with any visitor or NULL.
BFSCall ==
    /\ ~asserted
    /\ Len(m_nodes) > 0
    /\ \E hasVisitor \in BOOLEAN, source \in -1..(Len(m_nodes) - 1) :
          /\ visitor' = hasVisitor
          /\ visitSource' = (IF hasVisitor THEN ClampSource(source) ELSE 0)
          /\ SetRunState(BFSBegin(m_nodes, hasVisitor, source))
    /\ algo' = "BFS"
    /\ UNCHANGED <<threadVars, m_edges, m_matrix, m_storageType, engineVars, callVars, order>>

\* BFS called on a graph no traversal has run on.
BFSStart == pc = "idle" /\ BFSCall

\* BFS called after an earlier traversal of the graph has returned.
BFSAgain == pc = "done" /\ BFSCall

\* The code after the while loop without its OnEndVisit call.
BFSAfterLoop_NoEndVisit(st, hasVisitor) ==
    [CallVoid(st, hasVisitor, "OnEndComponentVisit") EXCEPT !.pc = "done"]

\* The code after the while loop: the closing hooks.
BFSAfterLoop(st, hasVisitor) ==
    [CallVoid(CallVoid(st, hasVisitor, "OnEndComponentVisit"), hasVisitor, "OnEndVisit")
        EXCEPT !.pc = "done"]

\* while(!visitQueue.empty()) is left: by break, or with the queue empty.
BFSLoopEnds(st) == st.broke \/ st.queue = <<>>

\* One pass of the while loop and, when the loop ends with it, the code
\* after the loop.
BFSIter ==
    /\ pc = "bfs"
    /\ CountHook(hookLog, "OnStartComponentVisit") < MaxStarts
    /\ \E a1 \in HookResults(visitor), a2 \in HookResults(visitor),
          a3 \in HookResults(visitor) :
          LET st == BFSLoopBody(RunState, m_edges, visitor, a1, a2, a3)
          IN  SetRunState(IF BFSLoopEnds(st) THEN BFSAfterLoop(st, visitor) ELSE st)
    /\ UNCHANGED <<threadVars, m_edges, m_matrix, m_storageType, engineVars, callVars, visitVars>>

\* -------------------------------------------------------------------- DFS
\* What DFSStep returns when control reaches its closing brace: it has no
\* return statement there, so the caller reads an indeterminate value. The
\* callers only compare it with Abort, so every value other than Abort acts
\* as Continue does.
UndefinedReturn == {NodeAction_Continue, NodeAction_Abort}

\* The value of the local visitSource of DFS, which is written only when a
\* visitor is attached: any int otherwise; here the ids of the graph.
UninitializedSource(nrNodes) == 0..(nrNodes - 1)

\* DFSStep returning early on Abort only.
DFSShortCircuits_AbortOnly(action) == action = NodeAction_Abort

\* if(action != NodeAction_Continue) return action;
DFSShortCircuits(action) == action # NodeAction_Continue

\* if(action == NodeAction_Abort) return action;
DFSPropagates(action) == action = NodeAction_Abort

\* OnNodeProcess invoked ahead of the children whatever the order.
DFSProcessesAhead_Always(dfsOrder) == TRUE

\* if(order == DFSOrder_PreOrder && visitor): OnNodeProcess ahead of the children.
DFSProcessesAhead(dfsOrder) == dfsOrder = DFSOrder_PreOrder

\* if(visited[node.id]) { if(visitor) return visitor->OnNodeAlreadyVisited(node); }
DFSStopsAtVisited(flags, id, hasVisitor) == flags[id + 1] /\ hasVisitor

\* The parent DFS hands to the top-level DFSStep of node nodeIt.
DFSRootParent(nodeIt) == nodeIt

\* DFSStep has returned action: what its caller does with it. The caller is
\* the innermost frame's loop, or with no frame left the driver, which drops
\* the value of the call for visitSource and checks the calls of its scan.
RECURSIVE DFSReturn(_, _, _)
DFSReturn(st, hasVisitor, action) ==
    IF st.stack # <<>>
    THEN IF DFSPropagates(action)
         THEN DFSReturn([st EXCEPT !.stack = SubSeq(@, 1, Len(@) - 1)], hasVisitor, action)
         ELSE [st EXCEPT !.stack = [@ EXCEPT ![Len(@)].edgeIt = @ + 1], !.pc = "dfs_loop"]
    ELSE IF st.drv.at = "source"
    THEN [st EXCEPT !.drv = [@ EXCEPT !.at = "scan", !.nodeIt = 0], !.pc = "dfs_scan"]
    ELSE IF action = NodeAction_Abort
    THEN [CallVoid(st, hasVisitor, "OnEndComponentVisit")
            EXCEPT !.drv = [@ EXCEPT !.allNodesVisited = TRUE], !.pc = "dfs_while"]
    ELSE [st EXCEPT !.drv = [@ EXCEPT !.nodeIt = @ + 1], !.pc = "dfs_scan"]

\* DFSStep(node, visitor, visited, order, parent) up to its loop over the
\* edges: the visitor returns a1 from OnNodeAlreadyVisited or
\* OnBeginNodeProcess and a2 from the pre-order OnNodeProcess.
DFSStepHead(st, node, parent, hasVisitor, dfsOrder, a1, a2) ==
    LET id == st.nodes[node + 1].id
    IN  IF DFSStopsAtVisited(st.visited, id, hasVisitor)
        THEN DFSReturn(CallHook(st, hasVisitor, "OnNodeAlreadyVisited", id, a1),
                       hasVisitor, a1)
        ELSE LET s1 == [st EXCEPT !.visited = [@ EXCEPT ![id + 1] = TRUE],
                                  !.marks = [@ EXCEPT ![id + 1] = @ + 1],
                                  !.nodes = [@ EXCEPT ![node + 1].parent = parent]]
                 s2 == NoteSkipped(CallHook(s1, hasVisitor, "OnBeginNodeProcess", id, a1),
                                   hasVisitor, id, a1)
                 s3 == NoteSkipped(CallHook(s2, hasVisitor, "OnNodeProcess", id, a2),
                                   hasVisitor, id, a2)
                 inner == [node |-> node, edgeIt |-> 0]
             IN  IF hasVisitor /\ DFSShortCircuits(a1)
                 THEN DFSReturn(s2, hasVisitor, a1)
                 ELSE IF hasVisitor /\ DFSProcessesAhead(dfsOrder)
                 THEN IF DFSShortCircuits(a2)
                      THEN DFSReturn(s3, hasVisitor, a2)
                      ELSE [s3 EXCEPT !.stack = Append(@, inner), !.pc = "dfs_loop"]
                 ELSE [s2 EXCEPT !.stack = Append(@, inner), !.pc = "dfs_loop"]

\* DFSStep after its loop over the edges: the post-order OnNodeProcess
\* returns a1, OnEndNodeProcess returns a2, and when neither is Abort the
\* function ends without a return statement and the caller reads r.
DFSStepTail(st, hasVisitor, dfsOrder, a1, a2, r) ==
    LET frame == st.stack[Len(st.stack)]
        id == st.nodes[frame.node + 1].id
        popped == [st EXCEPT !.stack = SubSeq(@, 1, Len(@) - 1)]
        s1 == IF dfsOrder = DFSOrder_PostOrder
              THEN CallHook(popped, hasVisitor, "OnNodeProcess", id, a1) ELSE popped
        s2 == CallHook(s1, hasVisitor, "OnEndNodeProcess", id, a2)
    IN  IF hasVisitor /\ dfsOrder = DFSOrder_PostOrder /\ DFSPropagates(a1)
        THEN DFSReturn(s1, hasVisitor, a1)
        ELSE IF hasVisitor /\ DFSPropagates(a2)
        THEN DFSReturn(s2, hasVisitor, a2)
        ELSE DFSReturn(IF hasVisitor THEN s2 ELSE popped, hasVisitor, r)

\* DFS(visitor, order) up to its while loop.
DFSBegin(nodes, hasVisitor) ==
    [CallVoid(FreshRun(nodes, "dfs_while"), hasVisitor, "OnStartVisit")
        EXCEPT !.drv = [allNodesVisited |-> FALSE, at |-> "while", nodeIt |-> 0]]

\* A call of DFS(visitor, order), with any visitor or NULL.
DFSCall ==
    /\ ~asserted
    /\ Len(m_nodes) > 0
    /\ \E hasVisitor \in BOOLEAN, dfsOrder \in DFSOrder,
          source \in -1..(Len(m_nodes) - 1) :
          /\ visitor' = hasVisitor
          /\ order' = dfsOrder
          /\ visitSource' = ClampSource(IF hasVisitor THEN source
                                        ELSE IF source \in UninitializedSource(Len(m_nodes))
                                        THEN source ELSE 0)
          /\ SetRunState(DFSBegin(m_nodes, hasVisitor))
    /\ algo' = "DFS"
    /\ UNCHANGED <<threadVars, m_edges, m_matrix, m_storageType, engineVars, callVars>>

\* DFS called on a graph no traversal has run on.
DFSStart == pc = "idle" /\ DFSCall

\* DFS called after an earlier traversal of the graph has returned.
DFSAgain == pc = "done" /\ DFSCall

\* The first index at or after nodeIt whose flag is false, or -1.
NextUnvisited(flags, nodeIt) ==
    LET left == {i \in nodeIt..(Len(flags) - 1) : ~flags[i + 1]}
    IN  IF left = {} THEN -1 ELSE CHOOSE i \in left : \A j \in left : i <= j

\* The driver of DFS from where it stands (the test of its while loop, or its
\* for loop at nodeIt) up to the next DFSStep it calls, whose head runs with
\* the hook results a1 and a2, or to its end (OnEndVisit).
RECURSIVE DFSDrive(_, _, _, _, _, _)
DFSDrive(st, source, hasVisitor, dfsOrder, a1, a2) ==
    IF st.pc = "dfs_while"
    THEN IF st.drv.allNodesVisited
         THEN [CallVoid(st, hasVisitor, "OnEndVisit") EXCEPT !.pc = "done"]
         ELSE LET s1 == [CallVoid(st, hasVisitor, "OnStartComponentVisit")
                           EXCEPT !.drv = [@ EXCEPT !.allNodesVisited = TRUE,
                                                    !.at = "source"]]
              IN  IF ~st.visited[source + 1]
                  THEN DFSStepHead(s1, source, DFSRootParent(source),
                                   hasVisitor, dfsOrder, a1, a2)
                  ELSE DFSDrive([s1 EXCEPT !.drv = [@ EXCEPT !.at = "scan", !.nodeIt = 0],
                                           !.pc = "dfs_scan"],
                                source, hasVisitor, dfsOrder, a1, a2)
    ELSE LET nodeIt == NextUnvisited(st.visited, st.drv.nodeIt)
         IN  IF nodeIt = -1
             THEN DFSDrive([CallVoid(st, hasVisitor, "OnEndComponentVisit")
                              EXCEPT !.pc = "dfs_while"],
                           source, hasVisitor, dfsOrder, a1, a2)
             ELSE DFSStepHead([st EXCEPT !.drv = [@ EXCEPT !.allNodesVisited = FALSE,
                                                          !.nodeIt = nodeIt]],
                              nodeIt, DFSRootParent(nodeIt), hasVisitor, dfsOrder, a1, a2)

\* The driver runs on, to the head of its next DFSStep or to its end.
DFSDriver ==
    /\ pc \in {"dfs_while", "dfs_scan"}
    /\ \E a1 \in HookResults(visitor), a2 \in HookResults(visitor) :
          SetRunState(DFSDrive(RunState, visitSource, visitor, order, a1, a2))
    /\ UNCHANGED <<threadVars, m_edges, m_matrix, m_storageType, engineVars, callVars, visitVars>>

\* The loop over the edges of the innermost DFSStep: the call for the next
\* edge's destination, or with no edge left the end of that DFSStep.
DFSLoop ==
    /\ pc = "dfs_loop"
    /\ LET frame == stack[Len(stack)]
           node == m_nodes[frame.node + 1]
       IN  IF frame.edgeIt < Len(node.edges)
           THEN LET next == m_edges[node.edges[frame.edgeIt + 1] + 1].destination
                    s1 == [RunState EXCEPT !.entered = @ \cup {<<node.id, next>>}]
                IN  /\ Len(stack) < MaxDepth
                    /\ \E a1 \in HookResults(visitor), a2 \in HookResults(visitor) :
                          SetRunState(DFSStepHead(s1, next, node.id, visitor, order, a1, a2))
           ELSE \E a1 \in HookResults(visitor), a2 \in HookResults(visitor),
                   r \in UndefinedReturn :
                   SetRunState(DFSStepTail(RunState, visitor, order, a1, a2, r))
    /\ UNCHANGED <<threadVars, m_edges, m_matrix, m_storageType, engineVars, callVars, visitVars>>

\* A generated graph and one traversal of it, as in test.cpp.
Next ==
    \/ calls = 0 /\ InitializeGraph
    \/ GenEdge
    \/ GenConnect
    \/ BFSStart
    \/ BFSIter
    \/ DFSStart
    \/ DFSDriver
    \/ DFSLoop

Spec == Init /\ [][Next]_vars

\* A generated graph and one traversal after the other, as in test.cpp.
NextRuns ==
    \/ calls = 0 /\ InitializeGraphOf(RerunGraphSizes)
    \/ GenEdge
    \/ GenConnect
    \/ BFSStart
    \/ BFSIter
    \/ DFSStart
    \/ DFSDriver
    \/ DFSLoop
    \/ BFSAgain
    \/ DFSAgain

SpecRuns == Init /\ [][NextRuns]_vars

\* ----------------------------------------------- shortestpath.cpp
\* enum PathState
PathState_Done == "Done"
PathState_Uninitialized == "Uninitialized"
PathState_NoPath == "NoPath"

\* BFSShortestPath::OnEndComponentVisit(), on m_pathState.
PathOnEndComponentVisit(pathState) ==
    IF pathState = PathState_Uninitialized THEN PathState_NoPath ELSE pathState

\* BFSShortestPath::OnNodeProcess(node), on m_pathState, for m_destination.
PathOnNodeProcess(pathState, node, destination) ==
    IF node = destination /\ pathState = PathState_Uninitialized
    THEN PathState_Done ELSE pathState

\* m_pathState of a BFSShortestPath for destination after the hooks of log:
\* the constructor leaves it Uninitialized and the two hooks above write it.
RECURSIVE PathStateAfter(_, _)
PathStateAfter(log, destination) ==
    IF log = <<>> THEN PathState_Uninitialized
    ELSE LET before == PathStateAfter(SubSeq(log, 1, Len(log) - 1), destination)
             h == log[Len(log)]
         IN  IF h.hook = "OnEndComponentVisit" THEN PathOnEndComponentVisit(before)
             ELSE IF h.hook = "OnNodeProcess"
             THEN PathOnNodeProcess(before, h.node, destination)
             ELSE before

\* BFSShortestPath::OnNodeProcess answering Continue, as the hook it is
\* written in place of does.
VoidReturn_Continue == {NodeAction_Continue}

\* BFSShortestPath::OnNodeProcess is declared void where the hook of
\* GraphVisitor it is written in place of returns a NodeAction. It returns
\* no value; BFS reads one ("action = visitor->OnNodeProcess(*crNode)"),
\* which is indeterminate. BFS compares it with Abort and SkipChildren only,
\* so every other value acts as Continue does.
VoidReturn == NodeAction

\* graph.BFS(&bfsShortPath): BFS up to its loop, with a BFSShortestPath
\* constructed for a source of the graph.
ShortestPathStart ==
    /\ pc = "idle"
    /\ ~asserted
    /\ Len(m_nodes) > 0
    /\ \E source \in 0..(Len(m_nodes) - 1) :
          /\ visitSource' = ClampSource(source)
          /\ SetRunState(BFSBegin(m_nodes, TRUE, source))
    /\ visitor' = TRUE
    /\ algo' = "BFS"
    /\ UNCHANGED <<threadVars, m_edges, m_matrix, m_storageType, engineVars, callVars, order>>

\* One pass of the loop of BFS with a BFSShortestPath: OnBeginNodeProcess,
\* OnNodeAlreadyVisited and OnEndNodeProcess are those of GraphVisitor and
\* return Continue.
ShortestPathIter ==
    /\ pc = "bfs"
    /\ \E a2 \in (IF BFSIsVisited(visited, m_nodes[Head(visitQueue) + 1].id)
                  THEN {NodeAction_Continue} ELSE VoidReturn) :
          LET st == BFSLoopBody(RunState, m_edges, TRUE, NodeAction_Continue, a2,
                                NodeAction_Continue)
          IN  SetRunState(IF BFSLoopEnds(st) THEN BFSAfterLoop(st, TRUE) ELSE st)
    /\ UNCHANGED <<threadVars, m_edges, m_matrix, m_storageType, engineVars, callVars, visitVars>>

\* main of shortestpath.cpp: a generated graph, then BFS with a BFSShortestPath.
NextPath ==
    \/ calls = 0 /\ InitializeGraph
    \/ GenEdge
    \/ GenConnect
    \/ ShortestPathStart
    \/ ShortestPathIter

SpecPath == Init /\ [][NextPath]_vars

\* ------------------------------------------ ThreadedInitializeGraph
\* The sizes and thread counts ThreadedInitializeGraph is called with.
ThreadedSizes == 1..MaxNodes
ThreadCounts == 1..MaxThreads
\* The flags it is called with: the combinations without Sparse (for a
\* sparse graph every thread runs m_maxSparseConnections passes of its loop).
ThreadedFlags == {flags \in AllFlags : ~HasFlag(flags, GraphCreationFlags_Sparse)}

\* A PThreadID no PStartThread has written: threads.resize(nrThreads)
\* value-initializes it.
NoThread == -1

\* const int nrConnections = edgeChance * size, for edgeChance =
\* m_maxSparseConnections / (float)size or m_denseEdgeChance.
NrConnections(isSparse, size) ==
    IF isSparse THEN m_maxSparseConnections
    ELSE (m_denseEdgeChanceTenths * size) \div 10

\* A thread of CreateGraphEdges: its locals, and whether it was started,
\* has returned, was joined.
NoWorker == [state |-> "unstarted", at |-> "dest", inRand |-> FALSE, edgeIt |-> 0,
             connections |-> {}, connectionNodeId |-> 0, outEdges |-> <<>>]

\* ThreadedInitializeGraph(size, flags, weightScale, storage, nrThreads) up
\* to its loop over the nodes.
ThreadedInitializeGraph ==
    /\ pc = "idle"
    /\ ~asserted
    /\ calls = 0
    /\ calls' = calls + 1
    /\ \E size \in ThreadedSizes, flags \in ThreadedFlags, nrThreads \in ThreadCounts,
          storage \in {StorageType_None, StorageType_AdjacencyList} :
          LET e == StartRandomEngine(isRandomEngineOn, seeded,
                                     HasFlag(flags, GraphCreationFlags_Consistent), randPos)
          IN  /\ m_storageType' = storage
              /\ isRandomEngineOn' = e.on
              /\ seeded' = e.seeded
              /\ randPos' = e.pos
              /\ m_nodes' = InitGraphStorage(m_nodes, size)
              /\ thr' = [size |-> size, nrThreads |-> nrThreads,
                         nrConnections |->
                             NrConnections(HasFlag(flags, GraphCreationFlags_Sparse), size),
                         nodeIt |-> 0, crThreadId |-> 0, threadIt |-> 0]
              /\ threads' = [k \in 1..nrThreads |-> NoThread]
              /\ workers' = [i \in 1..size |-> NoWorker]
              /\ edgeData' = [i \in 1..size |-> <<>>]
    /\ pc' = "thr_wait"
    /\ lastOp' = [op |-> "ThreadedInitializeGraph"]
    /\ UNCHANGED <<m_edges, m_matrix, randStream, prior, asserted, gen, visitVars, stateVars>>

\* pthread_join(threadId) has a thread to wait for: threadId names a thread
\* that was started and not joined yet.
Joinable(threadId) ==
    IF threadId = NoThread THEN FALSE
    ELSE workers[threadId + 1].state \in {"running", "finished"}

\* PWaitOnThread(threads[crThreadId], NULL), after which the caller is at
\* next. For a joinable thread pthread_join returns once the thread has
\* returned. For any other PThreadID its behaviour is undefined: it returns
\* an error, which the caller drops, or the process is gone.
PWaitOnThread(threadId, next) ==
    IF Joinable(threadId)
    THEN /\ workers[threadId + 1].state = "finished"
         /\ workers' = [workers EXCEPT ![threadId + 1].state = "joined"]
         /\ pc' = next
    ELSE /\ pc' \in {next, "crashed"}
         /\ workers' = workers

\* The loop over the nodes: PWaitOnThread(threads[crThreadId], NULL).
ThreadedWait ==
    /\ pc = "thr_wait"
    /\ PWaitOnThread(threads[thr.crThreadId + 1], "thr_start")
    /\ UNCHANGED <<graphVars, engineVars, callVars, visitVars, stateVars,
                   thr, threads, edgeData>>

\* The loop over the nodes: PStartThread(&edgeData[nodeIt], CreateGraphEdges,
\* threads[crThreadId]), the step of crThreadId and ++nodeIt.
ThreadedStart ==
    /\ pc = "thr_start"
    /\ workers' = [workers EXCEPT ![thr.nodeIt + 1] = [NoWorker EXCEPT !.state = "running"]]
    /\ threads' = [threads EXCEPT ![thr.crThreadId + 1] = thr.nodeIt]
    /\ thr' = [thr EXCEPT !.crThreadId = (@ + 1) % thr.nrThreads, !.nodeIt = @ + 1]
    /\ pc' = IF thr.nodeIt + 1 < thr.size THEN "thr_wait" ELSE "thr_join"
    /\ UNCHANGED <<graphVars, engineVars, callVars, visitVars, stateVars, edgeData>>

\* for(threadIt < nrThreads) PWaitOnThread(threads[crThreadId], NULL): one
\* pass; after the last the merge begins at node 0.
ThreadedJoin ==
    /\ pc = "thr_join"
    /\ PWaitOnThread(threads[thr.crThreadId + 1],
                     IF thr.threadIt + 1 < thr.nrThreads THEN "thr_join" ELSE "thr_merge")
    /\ thr' = [thr EXCEPT !.threadIt = @ + 1,
                          !.nodeIt = IF thr.threadIt + 1 < thr.nrThreads THEN @ ELSE 0]
    /\ UNCHANGED <<graphVars, engineVars, callVars, visitVars, stateVars,
                   threads, edgeData>>

\* m_edges.push_back(data.edges[dataIt]); data.node->edges.push_back(edgeId);
\* for every edge of data.
RECURSIVE MergeEdges(_, _, _)
MergeEdges(g, nodeIt, edges) ==
    IF edges = <<>> THEN g
    ELSE MergeEdges(G(PushEdgeRef(g.nodes, nodeIt, Len(g.edges)),
                      Append(g.edges, Head(edges)), g.matrix),
                    nodeIt, Tail(edges))

\* One pass of the merge loop: the edges of edgeData[nodeIt] are appended.
\* Read while the node's thread may still assign them, their value is
\* indeterminate: the vector as it was constructed, or the process is gone.
ThreadedMerge ==
    /\ pc = "thr_merge"
    /\ \/ /\ SetGraph(MergeEdges(CurrentGraph, thr.nodeIt, edgeData[thr.nodeIt + 1]))
          /\ thr' = [thr EXCEPT !.nodeIt = @ + 1]
          /\ pc' = IF thr.nodeIt + 1 < thr.size THEN "thr_merge" ELSE "thr_done"
       \/ /\ workers[thr.nodeIt + 1].state = "running"
          /\ pc' = "crashed"
          /\ UNCHANGED <<m_nodes, m_edges, m_matrix, thr>>
    /\ UNCHANGED <<m_storageType, engineVars, callVars, visitVars, stateVars,
                   threads, workers, edgeData>>

\* The threads run while ThreadedInitializeGraph does, and on after it has
\* returned if it did not wait for them; edgeData is gone by then.
WorkerRuns(i) ==
    /\ pc \in {"thr_wait", "thr_start", "thr_join", "thr_merge", "thr_done"}
    /\ workers[i + 1].state = "running"

\* CreateGraphEdges in the thread of node i calls rand(): for the node of
\* the next pass of its loop, or for the weight of the edge it is making.
\* Nothing in CreateGraphEdges or ThreadedInitializeGraph holds the thread
\* back while another thread is inside rand().
WorkerCallsRandOf(i) ==
    /\ WorkerRuns(i)
    /\ ~workers[i + 1].inRand
    /\ IF workers[i + 1].at = "dest"
       THEN workers[i + 1].edgeIt < thr.nrConnections ELSE TRUE
    /\ workers' = [workers EXCEPT ![i + 1].inRand = TRUE]
    /\ UNCHANGED <<graphVars, engineVars, callVars, visitVars, stateVars, pc, thr,
                   threads, edgeData>>

\* CreateGraphEdges: rand() returns, int connectionNodeId = rand() %
\* data->nrNodes, and the test of the set, in the thread of node i.
WorkerDrawsNodeOf(i) ==
    /\ WorkerRuns(i)
    /\ workers[i + 1].inRand
    /\ workers[i + 1].at = "dest"
    /\ \E v \in RandValues :
          /\ Draw(v)
          /\ LET connectionNodeId == v % thr.size
             IN  workers' = [workers EXCEPT ![i + 1] =
                    IF connectionNodeId \in @.connections
                    THEN [@ EXCEPT !.inRand = FALSE, !.edgeIt = @ + 1]
                    ELSE [@ EXCEPT !.inRand = FALSE, !.at = "weight",
                                   !.connectionNodeId = connectionNodeId]]
    /\ UNCHANGED <<graphVars, isRandomEngineOn, seeded, prior, callVars, visitVars,
                   stateVars, pc, thr, threads, edgeData>>

\* newEdge.weight = T(rand()/(float)RAND_MAX) * data->weightScale (a payload
\* no algorithm reads: one of Weights), and the rest of the pass of the loop.
WorkerDrawsWeightOf(i) ==
    /\ WorkerRuns(i)
    /\ workers[i + 1].inRand
    /\ workers[i + 1].at = "weight"
    /\ \E v \in RandValues, weight \in Weights :
          /\ Draw(v)
          /\ LET w == workers[i + 1]
                 newEdge == NewEdge(m_nodes[i + 1].id, w.connectionNodeId, weight, TRUE)
             IN  workers' = [workers EXCEPT ![i + 1] =
                    [@ EXCEPT !.inRand = FALSE, !.at = "dest", !.edgeIt = @ + 1,
                              !.outEdges = Append(@, newEdge),
                              !.connections = @ \cup {w.connectionNodeId}]]
    /\ UNCHANGED <<graphVars, isRandomEngineOn, seeded, prior, callVars, visitVars,
                   stateVars, pc, thr, threads, edgeData>>

\* data->edges = outEdges, and the end of the thread.
WorkerWritesOf(i) ==
    /\ WorkerRuns(i)
    /\ workers[i + 1].at = "dest"
    /\ workers[i + 1].edgeIt = thr.nrConnections
    /\ edgeData' = [edgeData EXCEPT ![i + 1] = workers[i + 1].outEdges]
    /\ workers' = [workers EXCEPT ![i + 1].state = "finished"]
    /\ UNCHANGED <<graphVars, engineVars, callVars, visitVars, stateVars, pc, thr, threads>>

\* A step of any of the threads.
WorkerCallsRand == \E i \in 0..(Len(workers) - 1) : WorkerCallsRandOf(i)
WorkerDrawsNode == \E i \in 0..(Len(workers) - 1) : WorkerDrawsNodeOf(i)
WorkerDrawsWeight == \E i \in 0..(Len(workers) - 1) : WorkerDrawsWeightOf(i)
WorkerWrites == \E i \in 0..(Len(workers) - 1) : WorkerWritesOf(i)

NextThreads ==
    \/ ThreadedInitializeGraph
    \/ ThreadedWait
    \/ ThreadedStart
    \/ ThreadedJoin
    \/ ThreadedMerge
    \/ WorkerCallsRand
    \/ WorkerDrawsNode
    \/ WorkerDrawsWeight
    \/ WorkerWrites

SpecThreads == Init /\ [][NextThreads]_vars

\* ------------------------------------------------------ reading a finished run
\* The ids of the graph's nodes.
NodeIds == 0..(Len(m_nodes) - 1)

\* How often the visitor's OnNodeProcess was handed node n in this run.
ProcessCount(n) ==
    Cardinality({i \in 1..Len(hookLog) : hookLog[i] = Hook("OnNodeProcess", n)})

\* The visitor of this run has returned no Abort (so far).
NeverAborts == visitor /\ abortAt = 0

\* The visitor of this run has returned Continue from every hook (so far).
AllContinue == visitor /\ abortAt = 0 /\ ~sawSkip

\* a and b are joined by an edge record, in either direction.
Adjacent(a, b) ==
    \E i \in 1..Len(m_edges) :
        \/ m_edges[i].source = a /\ m_edges[i].destination = b
        \/ m_edges[i].source = b /\ m_edges[i].destination = a

\* Every edge record has its reciprocal record: the stored graph is undirected.
Undirected ==
    \A i \in 1..Len(m_edges) : \E j \in 1..Len(m_edges) :
        /\ m_edges[j].source = m_edges[i].destination
        /\ m_edges[j].destination = m_edges[i].source

\* The nodes within k edges of s, edges taken in either direction.
RECURSIVE Ball(_, _)
Ball(s, k) ==
    IF k = 0 THEN {s}
    ELSE LET b == Ball(s, k - 1)
         IN  b \cup {n \in NodeIds : \E m \in b : Adjacent(m, n)}

\* The connected component of n, and the number of components.
Component(n) == Ball(n, Len(m_nodes))
NumComponents == Cardinality({Component(n) : n \in NodeIds})

\* The fewest-edges distance between s and v (v in the component of s).
Dist(s, v) ==
    CHOOSE k \in 0..Len(m_nodes) :
        /\ v \in Ball(s, k)
        /\ k = 0 \/ v \notin Ball(s, k - 1)

\* Walking parent links from v: the node whose parent is ROOT_ID and the
\* number of links walked to it; -1 for both if the walk meets no root.
RECURSIVE ParentWalk(_, _)
ParentWalk(v, fuel) ==
    LET p == m_nodes[v + 1].parent
    IN  IF p = ROOT_ID THEN [root |-> v, len |-> 0]
        ELSE IF fuel = 0 \/ p \notin NodeIds THEN [root |-> -1, len |-> -1]
        ELSE LET w == ParentWalk(p, fuel - 1)
             IN  [root |-> w.root, len |-> IF w.len < 0 THEN -1 ELSE w.len + 1]

IsComponentHook(h) == h.hook \in {"OnStartComponentVisit", "OnEndComponentVisit"}

\* The component hooks of the run, in the order they were invoked.
ComponentHooks == SelectSeq(hookLog, IsComponentHook)

\* Start, End, Start, End, ...: strict alternation, closed by an End.
Alternates(c) ==
    /\ Len(c) % 2 = 0
    /\ \A i \in 1..Len(c) :
          c[i].hook = IF i % 2 = 1 THEN "OnStartComponentVisit"
                      ELSE "OnEndComponentVisit"

\* The ids handed to node hooks strictly between places i and j of the log.
Enclosed(i, j) == {hookLog[k].node : k \in (i + 1)..(j - 1)}

\* ------------------------------------------------------------------ claims
\* C1: in a BFS or DFS run with a visitor attached, whatever the hooks
\* return, OnNodeProcess is invoked at most once per node and a node's
\* visited flag goes from false to true at most once.
C1_ProcessedAtMostOnce ==
    visitor => \A n \in NodeIds : marks[n + 1] <= 1 /\ ProcessCount(n) <= 1

\* A finished run with a visitor in which a processed node was reached again.
C1_Witness ==
    /\ pc = "done"
    /\ visitor
    /\ \E n \in NodeIds :
          /\ marks[n + 1] = 1
          /\ ProcessCount(n) = 1
          /\ \E i \in 1..Len(hookLog) : hookLog[i] = Hook("OnNodeAlreadyVisited", n)

\* C2: a BFS or DFS run on a non-empty graph whose visitor never returns
\* Abort ends with OnNodeProcess invoked exactly once for every node.
C2_EveryNodeProcessedOnce ==
    (pc = "done" /\ NeverAborts) => \A n \in NodeIds : ProcessCount(n) = 1

\* A finished pre-order DFS run, no Abort returned, in which a node whose
\* OnBeginNodeProcess returned SkipChildren was never handed to OnNodeProcess.
C2_SkippedNeverProcessed ==
    /\ pc = "done"
    /\ algo = "DFS"
    /\ NeverAborts
    /\ \E n \in skipped : ProcessCount(n) = 0 /\ marks[n + 1] = 1

\* C3: BFS: once a node hook has returned Abort, no further node hook is
\* invoked and no further node is dequeued; only the closing
\* OnEndComponentVisit and OnEndVisit follow, and the run is over.
C3_BFSAbortStops ==
    (algo = "BFS" /\ abortAt > 0) =>
        /\ pc = "done"
        /\ Len(hookLog) = abortAt + 2
        /\ hookLog[abortAt + 1] = Hook("OnEndComponentVisit", -1)
        /\ hookLog[abortAt + 2] = Hook("OnEndVisit", -1)

\* A BFS run cut short by Abort with nodes still queued and still unvisited.
C3_Witness ==
    /\ algo = "BFS"
    /\ abortAt > 0
    /\ pc = "done"
    /\ visitQueue # <<>>
    /\ \E n \in NodeIds : ~visited[n + 1]

\* C4: DFS, either order: once a node hook has returned Abort, OnNodeProcess
\* is invoked for no node afterwards, whichever component the aborting node
\* belongs to, the one started from the visit source included.
C4_DFSAbortStops ==
    (algo = "DFS" /\ abortAt > 0) =>
        \A i \in (abortAt + 1)..Len(hookLog) : hookLog[i].hook # "OnNodeProcess"

\* A DFS run in which the visit source's own hook returned Abort and
\* OnNodeProcess was invoked for another node afterwards.
C4_ProcessedAfterAbort ==
    /\ algo = "DFS"
    /\ abortAt > 0
    /\ hookLog[abortAt].node = visitSource
    /\ \E i \in (abortAt + 1)..Len(hookLog) :
          hookLog[i].hook = "OnNodeProcess" /\ hookLog[i].node # visitSource

\* C5: BFS with a visitor: OnStartComponentVisit and OnEndComponentVisit
\* alternate strictly, from a Start to a closing End, so the counts are equal
\* when OnEndVisit fires; with an all-Continue visitor on an undirected graph
\* the pairs are as many as the connected components, and every component
\* after the first starts at the lowest-id unvisited node.
C5_BFSComponentPairs ==
    (algo = "BFS" /\ visitor /\ pc = "done") =>
        /\ Alternates(ComponentHooks)
        /\ (AllContinue /\ Undirected) =>
              /\ Len(ComponentHooks) = 2 * NumComponents
              /\ \A i \in 3..Len(hookLog) :
                    hookLog[i].hook = "OnStartComponentVisit" =>
                        /\ i < Len(hookLog)
                        /\ hookLog[i + 1].hook = "OnBeginNodeProcess"
                        /\ \A n \in NodeIds :
                              n < hookLog[i + 1].node =>
                                  \E k \in 1..i : hookLog[k] = Hook("OnNodeProcess", n)

\* A finished BFS run, every hook answered Continue, whose last two
\* component hooks are both OnEndComponentVisit.
C5_TwoEndsInARow ==
    /\ algo = "BFS"
    /\ pc = "done"
    /\ AllContinue
    /\ LET c == ComponentHooks
       IN  /\ Len(c) >= 2
           /\ c[Len(c)].hook = "OnEndComponentVisit"
           /\ c[Len(c) - 1].hook = "OnEndComponentVisit"

\* C6: DFS with an all-Continue visitor on an undirected graph of c connected
\* components emits exactly c Start/End pairs, each enclosing the node hooks
\* of exactly one component.
C6_DFSComponentPairs ==
    (algo = "DFS" /\ pc = "done" /\ AllContinue /\ Undirected) =>
        /\ Alternates(ComponentHooks)
        /\ Len(ComponentHooks) = 2 * NumComponents
        /\ \A i \in 1..Len(hookLog) :
              hookLog[i].hook = "OnStartComponentVisit" =>
                  \E j \in (i + 1)..Len(hookLog) :
                      /\ hookLog[j].hook = "OnEndComponentVisit"
                      /\ \A k \in (i + 1)..(j - 1) : ~IsComponentHook(hookLog[k])
                      /\ \E n \in NodeIds : Enclosed(i, j) = Component(n)

\* A finished all-Continue DFS run over three isolated nodes, every node
\* processed, with two Start/End pairs.
C6_ThreeComponentsTwoPairs ==
    /\ algo = "DFS"
    /\ pc = "done"
    /\ AllContinue
    /\ m_edges = <<>>
    /\ Len(m_nodes) = 3
    /\ \A n \in NodeIds : ProcessCount(n) = 1
    /\ CountHook(hookLog, "OnStartComponentVisit") = 2
    /\ CountHook(hookLog, "OnEndComponentVisit") = 2

\* The graph is connected and every edge came from AddEdge with directed=false.
ConnectedByUndirectedCalls ==
    /\ \A i \in 1..Len(m_edges) : ~m_edges[i].directed
    /\ \A n \in NodeIds : n \in Component(0)

\* C7: on a connected graph whose edges were all added by AddEdge with
\* directed=false, after BFS from s with an all-Continue visitor the parent
\* links from any node v lead to the root at s, in as many links as the
\* fewest-edges distance between s and v.
C7_BFSShortestPaths ==
    (algo = "BFS" /\ pc = "done" /\ AllContinue /\ ConnectedByUndirectedCalls) =>
        \A v \in NodeIds :
            LET w == ParentWalk(v, Len(m_nodes))
            IN  w.root = visitSource /\ w.len = Dist(visitSource, v)

\* Such a run that left a node adjacent to the source as a root of its own.
C7_NeighbourIsRoot ==
    /\ algo = "BFS"
    /\ pc = "done"
    /\ AllContinue
    /\ ConnectedByUndirectedCalls
    /\ \E v \in NodeIds :
          /\ v # visitSource
          /\ Adjacent(visitSource, v)
          /\ m_nodes[v + 1].parent = ROOT_ID

\* The step is a call AddEdge(s, d, w, directed) that passed its assert with
\* list storage active, for two different nodes.
IsListAddEdge ==
    /\ calls' = calls + 1
    /\ lastOp'.op = "AddEdge"
    /\ ~asserted'
    /\ HasStorage(m_storageType, StorageType_AdjacencyList)
    /\ lastOp'.sourceId # lastOp'.destId

\* C8: AddEdge(s, d, w, directed) with list storage active appends, if
\* directed, exactly one record s->d referenced once from s's edge list and
\* leaves d's edge list alone; if not directed, exactly the two records s->d
\* and d->s, referenced from s's and d's edge lists.
C8_AddEdgeRecords ==
    [][IsListAddEdge =>
        LET s == lastOp'.sourceId
            d == lastOp'.destId
            n == Len(m_edges)
            sd == NewEdge(s, d, lastOp'.weight, lastOp'.directed)
            ds == NewEdge(d, s, lastOp'.weight, lastOp'.directed)
        IN  IF lastOp'.directed
            THEN /\ m_edges' = Append(m_edges, sd)
                 /\ m_nodes'[s + 1].edges = Append(m_nodes[s + 1].edges, n)
                 /\ m_nodes'[d + 1].edges = m_nodes[d + 1].edges
            ELSE /\ m_edges' = Append(Append(m_edges, sd), ds)
                 /\ m_nodes'[s + 1].edges = Append(m_nodes[s + 1].edges, n)
                 /\ m_nodes'[d + 1].edges = Append(m_nodes[d + 1].edges, n + 1)]_vars

\* The first edge call of a graph was AddEdge(s, d, w, true) and the edge
\* collection holds two records, s->d and d->s.
C8_DirectedCallTwoRecords ==
    /\ lastOp.op = "AddEdge"
    /\ lastOp.directed
    /\ ~asserted
    /\ lastOp.sourceId # lastOp.destId
    /\ m_edges = <<NewEdge(lastOp.sourceId, lastOp.destId, lastOp.weight, TRUE),
                   NewEdge(lastOp.destId, lastOp.sourceId, lastOp.weight, TRUE)>>

\* C9: after any sequence of AddNode and InitializeGraph calls the node at
\* position i has id i; AddNode(weight) gives the new node the id equal to
\* the node count before the call.
C9_DenseIds ==
    \A i \in 1..Len(m_nodes) : m_nodes[i].id = i - 1

\* AddNode(weight) has just appended a node whose id is not its position.
C9_AddNodeOtherId ==
    /\ lastOp.op = "AddNode"
    /\ Len(m_nodes) = lastOp.count + 1
    /\ m_nodes[Len(m_nodes)].id # lastOp.count

\* C10: DFS, either order: if OnBeginNodeProcess(k), or OnNodeProcess(k) in
\* pre-order, returned SkipChildren, no edge destination of k is entered
\* from k: no DFSStep is called from k's loop and no other node gets k as
\* its parent.
C10_SkipChildrenEntersNone ==
    algo = "DFS" =>
        \A k \in skipped :
            /\ \A n \in NodeIds : <<k, n>> \notin entered
            /\ \A n \in NodeIds \ {k} : m_nodes[n + 1].parent # k

\* A finished DFS run in which a node with an edge to another node was
\* skipped, and that other node was visited all the same.
C10_Witness ==
    /\ algo = "DFS"
    /\ pc = "done"
    /\ \E k \in skipped :
          \E i \in 1..Len(m_edges) :
              /\ m_edges[i].source = k
              /\ m_edges[i].destination # k
              /\ marks[m_edges[i].destination + 1] = 1

\* The places of the log where OnNodeProcess was handed node n.
ProcessedAt(n) == {i \in 1..Len(hookLog) : hookLog[i] = Hook("OnNodeProcess", n)}

\* The nodes processed in this run, in the order OnNodeProcess was invoked.
IsProcessHook(h) == h.hook = "OnNodeProcess"
ProcessOrder ==
    LET p == SelectSeq(hookLog, IsProcessHook)
    IN  [i \in 1..Len(p) |-> p[i].node]

\* C11: DFS with an all-Continue visitor: in PreOrder no node whose parent is
\* n is handed to OnNodeProcess ahead of n; in PostOrder, when n is handed to
\* OnNodeProcess every node whose parent is n has been, and OnEndNodeProcess(n)
\* is the next hook.
C11_DFSProcessOrder ==
    (algo = "DFS" /\ AllContinue) =>
        \A n \in NodeIds :
            LET children == {m \in NodeIds : m_nodes[m + 1].parent = n}
            IN  IF order = DFSOrder_PreOrder
                THEN \A m \in children : \A i \in ProcessedAt(m) :
                        \E j \in ProcessedAt(n) : j <= i
                ELSE \A i \in ProcessedAt(n) :
                        /\ \A m \in children : \E j \in ProcessedAt(m) : j <= i
                        /\ i < Len(hookLog)
                        /\ hookLog[i + 1] = Hook("OnEndNodeProcess", n)

\* A finished post-order run from 0 over the path 0->1->2, processed 2, 1, 0.
C11_Witness ==
    /\ algo = "DFS"
    /\ pc = "done"
    /\ AllContinue
    /\ order = DFSOrder_PostOrder
    /\ Len(m_nodes) = 3
    /\ {<<m_edges[i].source, m_edges[i].destination>> : i \in 1..Len(m_edges)}
          = {<<0, 1>>, <<1, 2>>}
    /\ m_nodes[2].parent = 0
    /\ m_nodes[3].parent = 1
    /\ ProcessOrder = <<2, 1, 0>>

\* The same path processed 0, 1, 2 by a finished pre-order run.
C11_PreOrderPath ==
    /\ algo = "DFS"
    /\ pc = "done"
    /\ AllContinue
    /\ order = DFSOrder_PreOrder
    /\ {<<m_edges[i].source, m_edges[i].destination>> : i \in 1..Len(m_edges)}
          = {<<0, 1>>, <<1, 2>>}
    /\ ProcessOrder = <<0, 1, 2>>

ComponentStarters ==
    {hookLog[i + 1].node : i \in {k \in 1..(Len(hookLog) - 1) :
        /\ hookLog[k].hook = "OnStartComponentVisit"
        /\ hookLog[k + 1].hook \in NodeHooks}}

\* C13: after a completed BFS or DFS run with an all-Continue visitor every
\* node that started a component has parent ROOT_ID, every other node has a
\* parent that is a valid id other than its own, no node has parent
\* INVALID_ID, and the parent links from any node lead to a root.
C13_ParentsWellFormed ==
    (pc = "done" /\ AllContinue) =>
        \A n \in NodeIds :
            LET p == m_nodes[n + 1].parent
            IN  /\ p # INVALID_ID
                /\ IF n \in ComponentStarters THEN p = ROOT_ID
                   ELSE p \in NodeIds /\ p # n
                /\ ParentWalk(n, Len(m_nodes)).len >= 0

\* A completed all-Continue DFS run, every node processed, that left the
\* visit source as its own parent.
C13_RootIsOwnParent ==
    /\ algo = "DFS"
    /\ pc = "done"
    /\ AllContinue
    /\ \A n \in NodeIds : ProcessCount(n) = 1
    /\ visitSource \in ComponentStarters
    /\ m_nodes[visitSource + 1].parent = visitSource

\* The same statement for BFS runs alone.
C13_BFSParentsWellFormed ==
    algo = "BFS" => C13_ParentsWellFormed

\* C14: AddEdge called while the storage type is StorageType_None fails its
\* assertion and leaves the node collection, the edge collection and the
\* matrix unchanged (the calls InitializeGraph makes included); it never
\* returns as if it had succeeded.
C14_AddEdgeNeedsStorage ==
    [][/\ (calls' = calls + 1 /\ lastOp'.op = "AddEdge"
             /\ m_storageType = StorageType_None) =>
            (asserted' /\ UNCHANGED <<m_nodes, m_edges, m_matrix>>)
       /\ (pc = "gen" /\ m_storageType = StorageType_None) =>
            UNCHANGED <<m_nodes, m_edges, m_matrix>>]_vars

\* AddEdge was called on a graph of two nodes or more with no storage
\* selected: the assertion failed and no edge was stored.
C14_Witness ==
    /\ lastOp.op = "AddEdge"
    /\ m_storageType = StorageType_None
    /\ asserted
    /\ Len(m_nodes) >= 2
    /\ m_edges = <<>>
    /\ m_matrix = <<>>

\* C15: two InitializeGraph calls with the Consistent flag and identical
\* arguments, each on a fresh Graph and made one after the other in one
\* process with the same seed, produce identical node and edge collections.
C15_ConsistentIsRepeatable ==
    (prior.phase = "again" /\ pc = "idle" /\ ~asserted) =>
        m_nodes = prior.nodes /\ m_edges = prior.edges

\* The second generation has returned with an edge collection other than
\* the first one's, and srand was never called in the process.
C15_SecondGraphDiffers ==
    /\ prior.phase = "again"
    /\ pc = "idle"
    /\ ~asserted
    /\ ~seeded
    /\ m_nodes # prior.nodes
    /\ m_edges # prior.edges

\* The nodes of a freshly built copy of the graph: no traversal has written
\* a parent.
FreshCopy ==
    [i \in 1..Len(m_nodes) |->
        [id |-> m_nodes[i].id, edges |-> m_nodes[i].edges, parent |-> INVALID_ID]]

\* The step is a call of BFS or DFS made after an earlier run has returned.
IsCallAfterRun == pc = "done" /\ pc' \in {"bfs", "dfs_while"}

\* C16: the parents a run leaves do not depend on earlier traversals: when
\* the first hook of a run fires every node's parent is INVALID_ID.
C16_ParentsInvalidAtFirstHook ==
    [][IsCallAfterRun =>
        \A i \in 1..Len(m_nodes) : m_nodes'[i].parent = INVALID_ID]_vars

\* C16, as the code has it: when the first hook of a run fires every node's
\* parent is INVALID_ID, but for the visit source of BFS, which is ROOT_ID
\* already; and a run called after earlier runs starts from the very state it
\* starts from on a freshly built copy of the graph, so it leaves the same
\* parents.
C16_RunsStartAfresh ==
    [][IsCallAfterRun =>
        /\ \A i \in 1..Len(m_nodes) :
              m_nodes'[i].parent = IF algo' = "BFS" /\ i - 1 = visitSource'
                                   THEN ROOT_ID ELSE INVALID_ID
        /\ LET fresh == IF algo' = "BFS"
                        THEN BFSBegin(FreshCopy, visitor', visitSource')
                        ELSE DFSBegin(FreshCopy, visitor')
           IN  /\ m_nodes' = fresh.nodes
               /\ visited' = fresh.visited
               /\ visitQueue' = fresh.queue
               /\ hookLog' = fresh.log
               /\ stack' = fresh.stack
               /\ drv' = fresh.drv]_vars

\* A BFS run that followed a post-order DFS run of the same graph (order
\* still holds that run's order) has ended, on a graph with an edge.
C16_Witness ==
    /\ algo = "BFS"
    /\ order = DFSOrder_PostOrder
    /\ pc = "done"
    /\ visitor
    /\ m_edges # <<>>
    /\ \E n \in NodeIds : m_nodes[n + 1].parent \in NodeIds

\* The nodes the edge list of n leads to, and the nodes within k list edges
\* of s, each edge taken from the node that lists it to its destination.
ListSuccessors(n) ==
    {m_edges[m_nodes[n + 1].edges[i] + 1].destination :
        i \in 1..Len(m_nodes[n + 1].edges)}

RECURSIVE ListBall(_, _)
ListBall(s, k) ==
    IF k = 0 THEN {s}
    ELSE LET b == ListBall(s, k - 1)
         IN  b \cup UNION {ListSuccessors(m) : m \in b}

ListReachable(s, d) == d \in ListBall(s, Len(m_nodes))

\* The fewest list edges that lead from s to d (d reachable from s).
ListDist(s, d) ==
    CHOOSE k \in 0..Len(m_nodes) :
        /\ d \in ListBall(s, k)
        /\ k = 0 \/ d \notin ListBall(s, k - 1)

\* A BFS run with a BFSShortestPath has returned.
ShortestPathRunDone == algo = "BFS" /\ pc = "done" /\ visitor

\* C17: after a BFS run with the BFSShortestPath visitor for source s and
\* destination d the path state is Done if and only if d is reachable from s
\* along list edges, and NoPath otherwise; when Done the parent walk from d
\* ends at s and has fewest-edges length. (The parents on the walk are
\* written once, before d is processed: the walk the visitor prints is the
\* walk of the final parents.)
C17_ShortestPathState ==
    ShortestPathRunDone =>
        \A d \in NodeIds :
            LET state == PathStateAfter(hookLog, d)
                w == ParentWalk(d, Len(m_nodes))
            IN  IF ListReachable(visitSource, d)
                THEN /\ state = PathState_Done
                     /\ w.root = visitSource
                     /\ w.len = ListDist(visitSource, d)
                ELSE state = PathState_NoPath

\* Such a run on a graph whose source lists an edge to another node d, and
\* d was never handed to OnNodeProcess before the source's component ended.
C17_ReachableButNoPath ==
    /\ ShortestPathRunDone
    /\ \E d \in NodeIds :
          /\ d # visitSource
          /\ d \in ListSuccessors(visitSource)
          /\ PathStateAfter(hookLog, d) = PathState_NoPath

\* The step is a pass of the loop of BFS after which the loop goes on.
IsBFSPassThatGoesOn == algo = "BFS" /\ pc = "bfs" /\ pc' = "bfs"

\* C18: BFS terminates (reaches OnEndVisit) on every finite non-empty graph
\* for every visitor, whatever its hooks return, and with no visitor. The
\* loop of BFS has no state but the queue, the visited flags and the
\* parents, so it terminates for every visitor only if no pass that goes on
\* leaves all three as they were: a visitor that answers such a pass the
\* same way again is asked the same question for ever.
C18_BFSPassesProgress ==
    [][IsBFSPassThatGoesOn =>
        <<visitQueue', visited', m_nodes'>> # <<visitQueue, visited, m_nodes>>]_vars

\* A BFS run that is where it was after OnStartComponentVisit, with the same
\* queue and no node visited, having handed the node at the front of the
\* queue to OnBeginNodeProcess twice already.
C18_BackWhereItStarted ==
    /\ algo = "BFS"
    /\ pc = "bfs"
    /\ visitor
    /\ visitQueue = <<visitSource>>
    /\ \A n \in NodeIds : ~visited[n + 1]
    /\ Cardinality({i \in 1..Len(hookLog) :
           hookLog[i] = Hook("OnBeginNodeProcess", visitSource)}) >= 2

\* C19: DFS terminates on every finite graph, cycles and reciprocal edges
\* included, with a visitor and with a null visitor: DFSStep on a node that
\* is visited already returns without marking it again and without
\* recursing into its children, so in a DFS run no node is marked twice and
\* no node has two active DFSStep frames.
C19_DFSLeavesVisitedAlone ==
    algo = "DFS" =>
        /\ \A n \in NodeIds : marks[n + 1] <= 1
        /\ \A i \in 1..Len(stack) : \A j \in 1..Len(stack) :
              stack[i].node = stack[j].node => i = j

\* A DFS run with a null visitor that is inside DFSStep for a node on top of
\* an unfinished DFSStep for the same node.
C19_RecursesIntoVisited ==
    /\ algo = "DFS"
    /\ ~visitor
    /\ \E i \in 1..Len(stack) : \E j \in 1..Len(stack) :
          /\ i < j
          /\ stack[i].node = stack[j].node
          /\ marks[stack[i].node + 1] >= 2

\* C20: ThreadedInitializeGraph starts its merge phase only after every
\* worker that was started has finished and been joined, for every size >= 1
\* and nrThreads >= 1: no worker can still be writing its edge buffer while
\* the merge reads it.
C20_MergeAfterJoin ==
    pc = "thr_merge" =>
        \A i \in 1..Len(workers) : workers[i].state \in {"unstarted", "joined"}

\* The merge has read the edges of a node whose thread has not assigned them
\* yet.
C20_MergeReadUnfinished ==
    /\ pc = "thr_merge"
    /\ \E i \in 1..Len(workers) :
          /\ i - 1 < thr.nodeIt
          /\ workers[i].state = "running"

\* The step is a call of PWaitOnThread by ThreadedInitializeGraph (the steps
\* of the threads leave pc and thr alone).
IsWaitOnThread == pc \in {"thr_wait", "thr_join"} /\ (pc' # pc \/ thr' # thr)

\* The step is a call of PStartThread by ThreadedInitializeGraph.
IsStartThread == pc = "thr_start" /\ pc' # pc

\* C21: in ThreadedInitializeGraph PWaitOnThread is only ever invoked on a
\* slot that was started with PStartThread and not joined since, and a slot
\* is joined before it is handed a new unit of work.
C21_WaitsOnStartedSlots ==
    [][/\ IsWaitOnThread => Joinable(threads[thr.crThreadId + 1])
       /\ IsStartThread =>
             \/ threads[thr.crThreadId + 1] = NoThread
             \/ workers[threads[thr.crThreadId + 1] + 1].state = "joined"]_vars

\* The process ended inside the first PWaitOnThread of the call, made on a
\* slot no thread was ever started in.
C21_WaitedOnNeverStarted ==
    /\ pc = "crashed"
    /\ thr.nodeIt = 0
    /\ \A k \in 1..Len(threads) : threads[k] = NoThread
    /\ \A i \in 1..Len(workers) : workers[i].state = "unstarted"

\* The threads that have called rand() and are yet to return from it.
InsideRand == {i \in 1..Len(workers) : workers[i].state = "running" /\ workers[i].inRand}

\* C22: during ThreadedInitializeGraph no two workers are inside the
\* process-wide random generator at the same time.
C22_RandMutualExclusion == Cardinality(InsideRand) <= 1

\* Two threads of CreateGraphEdges inside rand() at once.
C22_TwoInsideRand ==
    /\ pc \in {"thr_wait", "thr_start", "thr_join", "thr_merge"}
    /\ Cardinality(InsideRand) >= 2

\* C23: InitializeGraph terminates for every size >= 1 and every combination
\* of flags, given a random source that yields every value of its range.
\* Its two for loops are bounded by size; the while loop that draws
\* connectionIndex again is left only by a value other than nodeIt, so under
\* fair draws it ends exactly if rand() can return such a value.
C23_RetryLoopCanEnd ==
    (pc = "gen" /\ gen.phase = "retry") =>
        \E v \in RandValues : ~(~gen.isCyclic /\ v % gen.size = gen.nodeIt)

\* InitializeGraph is drawing connectionIndex again for the only node of the
\* graph.
C23_RetryForSingleNode ==
    /\ pc = "gen"
    /\ gen.phase = "retry"
    /\ gen.size = 1
    /\ gen.isConnected
    /\ ~gen.isCyclic

\* C24: within one BFS run, for every visitor behaviour, a node's parent that
\* has been set to a value other than INVALID_ID is never changed again.
C24_BFSParentWrittenOnce ==
    [][(algo = "BFS" /\ pc = "bfs") =>
        \A i \in 1..Len(m_nodes) :
            m_nodes[i].parent # INVALID_ID => m_nodes'[i].parent = m_nodes[i].parent]_vars

\* A BFS run in which a node that another node's edge leads to, and whose
\* OnBeginNodeProcess returned SkipChildren, is now a root.
C24_DiscoveredNodeMadeRoot ==
    /\ algo = "BFS"
    /\ visitor
    /\ \E n \in NodeIds :
          /\ n # visitSource
          /\ n \in skipped
          /\ ~visited[n + 1]
          /\ m_nodes[n + 1].parent = ROOT_ID
          /\ \E m \in NodeIds : visited[m + 1] /\ n \in ListSuccessors(m)

\* The step is a call of InitializeGraph.
IsGenerationCall == lastOp'.op = "InitializeGraph" /\ calls' = calls + 1

\* C25: the first generation call in a process seeds the process-wide random
\* generator and sets the engine-started flag; later generation calls find
\* the flag set and do not seed again. So every generation call leaves the
\* generator seeded and the flag set, and a call that finds the flag set
\* leaves the place in the stream alone.
C25_FirstCallSeeds ==
    [][IsGenerationCall =>
        /\ seeded'
        /\ isRandomEngineOn'
        /\ isRandomEngineOn => randPos' = randPos]_vars

\* Two graphs were generated in the process and srand was never called.
C25_GeneratedUnseeded ==
    /\ prior.phase = "again"
    /\ pc = "idle"
    /\ lastOp.op = "InitializeGraph"
    /\ ~seeded
    /\ ~isRandomEngineOn

\* The step is a call of AddEdge that passed its assert.
IsAddEdge == calls' = calls + 1 /\ lastOp'.op = "AddEdge" /\ ~asserted'

\* C26: the storage backends are independently selectable: AddEdge on a
\* graph whose storage kind is AdjacencyList only leaves the matrix buffer
\* unchanged, and AddEdge on a graph whose storage kind is AdjacencyMatrix
\* only leaves the edge collection and every node's edge list unchanged.
C26_BackendsIndependent ==
    [][IsAddEdge =>
        /\ m_storageType = StorageType_AdjacencyList => m_matrix' = m_matrix
        /\ m_storageType = StorageType_AdjacencyMatrix =>
              (m_edges' = m_edges /\ m_nodes' = m_nodes)]_vars

\* A graph whose storage kind is StorageType_AdjacencyList, after an AddEdge
\* call that wrote the matrix buffer as well as the edge collection.
C26_ListGraphHoldsMatrix ==
    /\ m_storageType = StorageType_AdjacencyList
    /\ lastOp.op = "AddEdge"
    /\ ~asserted
    /\ m_edges # <<>>
    /\ m_matrix # <<>>

\* The cells AddMatrixEdge(sourceId, destId, weight, directed) writes in a
\* graph of nrNodes nodes.
MatrixWrites(nrNodes, sourceId, destId, directed) ==
    {GetMatrixIndex(nrNodes, sourceId \div nrNodes, destId % nrNodes)} \cup
    (IF directed
     THEN {GetMatrixIndex(nrNodes, destId \div nrNodes, sourceId % nrNodes)} ELSE {})

\* C27: when matrix storage is active, in every reachable state after any
\* sequence of AddNode and AddEdge calls, once at least one edge has been
\* added, the matrix buffer size equals nodeCount * nodeCount.
C27_MatrixAlwaysSquare ==
    (HasStorage(m_storageType, StorageType_AdjacencyMatrix) /\ m_matrix # <<>>) =>
        Len(m_matrix) = Len(m_nodes) * Len(m_nodes)

\* C27, as the code has it: when matrix storage is active the matrix buffer
\* size equals nodeCount * nodeCount when an AddEdge call returns (AddNode
\* leaves the buffer as it is, and the next AddEdge sizes it again), and
\* every write of that call for valid ids lands inside the buffer.
C27_MatrixSquareAfterAddEdge ==
    [][(IsAddEdge /\ HasStorage(m_storageType, StorageType_AdjacencyMatrix)) =>
        /\ Len(m_matrix') = Len(m_nodes') * Len(m_nodes')
        /\ \A index \in MatrixWrites(Len(m_nodes), lastOp'.sourceId, lastOp'.destId,
                                     lastOp'.directed) :
              index >= 0 /\ index < Len(m_matrix')]_vars

\* AddEdge has returned, as the third call, on a graph of two or more nodes
\* with matrix storage: the buffer holds nodeCount * nodeCount cells, the
\* written one among them.
C27_Witness ==
    /\ HasStorage(m_storageType, StorageType_AdjacencyMatrix)
    /\ lastOp.op = "AddEdge"
    /\ ~asserted
    /\ calls = 3
    /\ Len(m_nodes) >= 2
    /\ Len(m_matrix) = Len(m_nodes) * Len(m_nodes)
    /\ \E i \in 1..Len(m_matrix) : m_matrix[i] # 0

\* The places <<i, k>> of the edge lists that hold a reference to edge e.
RefsTo(e) ==
    UNION {{<<i, k>> : k \in {j \in 1..Len(m_nodes[i].edges) : m_nodes[i].edges[j] = e}} :
              i \in 1..Len(m_nodes)}

\* C28: in every reachable state after any sequence of AddNode, AddEdge (list
\* storage), InitializeGraph and ThreadedInitializeGraph calls, each edge
\* record at index e is referenced exactly once, from the edge list of the
\* node whose id is that edge's source, and every reference held in a node's
\* edge list is a valid index into the edge collection.
C28_EdgeReferences ==
    /\ \A e \in 0..(Len(m_edges) - 1) :
          /\ Cardinality(RefsTo(e)) = 1
          /\ \A p \in RefsTo(e) : m_nodes[p[1]].id = m_edges[e + 1].source
    /\ \A i \in 1..Len(m_nodes) : \A k \in 1..Len(m_nodes[i].edges) :
          m_nodes[i].edges[k] \in 0..(Len(m_edges) - 1)

\* An edge record is referenced from the edge list of a node whose id is not
\* the edge's source.
C28_ReferencedFromOtherId ==
    /\ lastOp.op = "AddEdge"
    /\ ~asserted
    /\ \E e \in 0..(Len(m_edges) - 1) : \E p \in RefsTo(e) :
          m_nodes[p[1]].id # m_edges[e + 1].source

\* InitializeGraph(size, flags, weightScale, storage) has returned for the
\* first Graph of the process, with the Connected flag and list storage.
ConnectedListGraphReturned ==
    /\ prior.phase = "first"
    /\ pc = "idle"
    /\ ~asserted
    /\ HasFlag(prior.flags, GraphCreationFlags_Connected)
    /\ HasStorage(prior.storage, StorageType_AdjacencyList)

\* C29: after InitializeGraph with the Connected flag and list storage
\* returns, every node has at least one edge reference in its edge list, and
\* when AllowCycles is not set no generated edge has source equal to
\* destination.
C29_ConnectedGraph ==
    ConnectedListGraphReturned =>
        /\ \A i \in 1..Len(m_nodes) : Len(m_nodes[i].edges) >= 1
        /\ ~HasFlag(prior.flags, GraphCreationFlags_AllowCycles) =>
              \A e \in 1..Len(m_edges) : m_edges[e].source # m_edges[e].destination

\* Such a call has returned a graph of MaxNodes nodes without AllowCycles,
\* one of whose nodes holds nothing but its forced edge.
C29_Witness ==
    /\ ConnectedListGraphReturned
    /\ ~HasFlag(prior.flags, GraphCreationFlags_AllowCycles)
    /\ Len(m_nodes) = MaxNodes
    /\ \E i \in 1..Len(m_nodes) : Len(m_nodes[i].edges) = 1

\* C29 for every flag combination and for graphs that held nodes before: the
\* same, stated of the step with which InitializeGraph returns.
C29_ConnectedGraphAllFlags ==
    [][(pc = "gen" /\ pc' = "idle" /\ ~asserted' /\ gen.isConnected
            /\ HasStorage(m_storageType, StorageType_AdjacencyList)) =>
        /\ \A i \in 1..Len(m_nodes') : Len(m_nodes'[i].edges) >= 1
        /\ ~gen.isCyclic =>
              \A e \in 1..Len(m_edges') : m_edges'[e].source # m_edges'[e].destination]_vars
====
